---- MODULE Spec2Model ----
(***************************************************************************)
(* The runner's HTTP task client (package runner, HTTPTaskClient) and the   *)
(* task model (package models) of parity-runner, as a state machine.        *)
(*                                                                          *)
(* Each runner is one process holding one HTTPTaskClient.  A client call    *)
(* runs up to its next HTTP request, blocks ("wait"), and goes on when the  *)
(* request ends (a response, or a transport error).  The coordination       *)
(* server is not part of the repository: it is modelled from the interface  *)
(* tables of the specification (Server* definitions).                       *)
(***************************************************************************)
EXTENDS Integers, Sequences, FiniteSets, TLC

VARIABLES
    scenario,  \* who calls the clients: see Scenarios below
    baseURL,   \* HTTPTaskClient.baseURL of each runner's client
    pc,        \* "idle" | "wait" (blocked in an HTTP call) | "done" | "crashed"
    call,      \* the client operation a runner is executing, with its arguments
    stage,     \* the client function whose HTTP request is outstanding
    req,       \* the outstanding HTTP request
    log,       \* the HTTP requests of the current call that ended, in order,
               \* each with the response it got
    ret,       \* what the finished call returned
    held,      \* tasks a runner was told it claimed (StartTask/FetchTask success)
    status,    \* server: status of each task
    stored,    \* server: result stored for each task
    theTask,   \* models: the Task that Task.Validate is called on
    taskErr,   \* models: what Task.Validate returned
    theConfig, \* models: the TaskConfig that TaskConfig.Validate is called on
    taskType,  \* models: the taskType argument of TaskConfig.Validate
    configErr  \* models: what TaskConfig.Validate returned

\* the variables of the task model (package models)
modelsVars == <<theTask, taskErr, theConfig, taskType, configErr>>

vars == <<scenario, baseURL, pc, call, stage, req, log, ret, held, status, stored,
          theTask, taskErr, theConfig, taskType, configErr>>

----------------------------------------------------------------------------
(* Bounds and input universes *)

\* number of distinct clock readings time.Now() may give
MaxTime == 2

Runners == {"r1", "r2"}

\* the device identity deviceid.Manager.VerifyDeviceID gives on each host
DeviceIDOf(r) == IF r = "r1" THEN "dev1" ELSE "dev2"

\* The callers of the client and the server are outside the repository.
\* Two settings are explored:
\*   "solo": one runner (r1) calls every operation with every argument below,
\*           against a server that has one task and may answer with faults;
\*   "race": two runners compete for two tasks with the claiming operations
\*           (FetchTask, StartTask, UpdateTaskStatus), identifiers of tasks
\*           the server has, and a server that answers without faults
\*           (requests and replies may still be lost).
Scenarios == {"solo", "race"}

Active(sc) == IF sc = "solo" THEN {"r1"} ELSE Runners

\* uuid.UUID values: 0 is uuid.Nil, 1 and 2 are task identifiers
Nil == 0
TasksOf(sc) == IF sc = "solo" THEN {1} ELSE {1, 2}

\* a time.Time: 0 is the zero time (Time.IsZero), 1 a time before every
\* call, and the clock reads one of 2 .. MaxTime + 1
ZeroTime == 0
ClockTimes == 2 .. (MaxTime + 1)

----------------------------------------------------------------------------
(* models: statuses *)

TaskStatusPending == "pending"
TaskStatusRunning == "running"
TaskStatusCompleted == "completed"
TaskStatusFailed == "failed"

----------------------------------------------------------------------------
(* net/http status codes used by the client *)

StatusOK == 200
StatusBadRequest == 400
StatusNotFound == 404
StatusConflict == 409

----------------------------------------------------------------------------
(* uuid: parsing and formatting *)

ParseFailed == -1

\* uuid.Parse: "t1" is the canonical text of UUID 1, "T1" another accepted
\* text of the same UUID (upper case); "bad" and "ctl" are no UUID
ParseUUID(s) ==
    CASE s = "t1" -> 1
      [] s = "T1" -> 1
      [] s = "t2" -> 2
      [] OTHER -> ParseFailed

\* uuid.UUID.String: the canonical text
UUIDString(u) ==
    CASE u = 1 -> "t1"
      [] u = 2 -> "t2"
      [] OTHER -> "t0"

\* net/url parsing, as http.NewRequest does it: a control character in the
\* path makes the URL unparseable
URLParses(url) == \A i \in 1..Len(url) : url[i] # "ctl"

\* task identifiers a caller may pass (strings); in "solo" the server does
\* not have task 2
IdArgs(sc) == IF sc = "solo" THEN {"t1", "T1", "t2", "bad", "ctl"} ELSE {"t1", "t2"}

----------------------------------------------------------------------------
(* values *)

NoHeader == "<absent>"

NoBody ==
    [kind |-> "none", TaskID |-> Nil, CreatedAt |-> ZeroTime,
     RunnerAddress |-> "", runner_id |-> ""]

\* models.TaskResult as far as the client reads it; isNil is the nil pointer
NilResult ==
    [isNil |-> TRUE, TaskID |-> Nil, CreatedAt |-> ZeroTime, RunnerAddress |-> ""]

MkResult(id, at, addr) ==
    [isNil |-> FALSE, TaskID |-> id, CreatedAt |-> at, RunnerAddress |-> addr]

\* results a caller may pass to SaveTaskResult: nil, every field unset,
\* every field set, and two mixed ones
ResultArgs ==
    {NilResult,
     MkResult(Nil, ZeroTime, ""),
     MkResult(2, 1, "addr"),
     MkResult(Nil, 1, ""),
     MkResult(2, ZeroTime, "addr")}

\* (status, result) pairs a caller may pass to UpdateTaskStatus
UpdateArgs(sc) ==
    IF sc = "solo"
    THEN ({TaskStatusRunning, TaskStatusPending, ""} \X {NilResult})
         \cup ({TaskStatusCompleted, TaskStatusFailed}
                \X {NilResult, MkResult(Nil, ZeroTime, ""), MkResult(2, 1, "addr")})
         \cup {<<TaskStatusPending, MkResult(Nil, ZeroTime, "")>>}
    ELSE {TaskStatusCompleted} \X {NilResult}

NoReq ==
    [method |-> "", url |-> <<>>, device |-> NoHeader, ctype |-> "",
     body |-> NoBody, timeout |-> 0]

\* an error value: the format of its message and what the message carries
\* (cause: the transport error a "... failed for <url>: %w" message wraps)
NoErr == [kind |-> "nil", code |-> 0, body |-> "", url |-> <<>>, cause |-> ""]
Err(kind) == [NoErr EXCEPT !.kind = kind]
ErrURL(kind, url, cause) == [NoErr EXCEPT !.kind = kind, !.url = url, !.cause = cause]
ErrCode(kind, code) == [NoErr EXCEPT !.kind = kind, !.code = code]
ErrBody(kind, body) == [NoErr EXCEPT !.kind = kind, !.body = body]
ErrCodeBody(kind, code, body) ==
    [NoErr EXCEPT !.kind = kind, !.code = code, !.body = body]

\* what a call returns: (task, tasks, error)
RetErr(e) == [err |-> e, task |-> Nil, tasks |-> <<>>]
RetOK == RetErr(NoErr)
RetTask(t) == [err |-> NoErr, task |-> t, tasks |-> <<>>]
RetTasks(ts) == [err |-> NoErr, task |-> Nil, tasks |-> ts]

\* a call: the operation, its arguments (id, status, result; finite: the
\* loss and accuracy given to SubmitFLModelUpdate are finite numbers), the
\* local variable task of FetchTask, the clock reading of the call, and the
\* caller's TaskResult object as the call leaves it
NoCall ==
    [op |-> "", id |-> "", status |-> "", result |-> NilResult, finite |-> TRUE,
     task |-> Nil, at |-> ZeroTime, filled |-> NilResult]

Call(op, id, st, result, finite) ==
    [op |-> op, id |-> id, status |-> st, result |-> result, finite |-> finite,
     task |-> Nil, at |-> ZeroTime, filled |-> result]

\* how far a client function got: it sent a request and blocks, it returned,
\* or it panicked
Send(st, q, c) == [kind |-> "send", stage |-> st, req |-> q, ret |-> RetOK, call |-> c]
Return(v, c) == [kind |-> "return", stage |-> "", req |-> NoReq, ret |-> v, call |-> c]
Panic(c) == [kind |-> "panic", stage |-> "", req |-> NoReq, ret |-> RetOK, call |-> c]

----------------------------------------------------------------------------
(* models: task types, TaskConfig.Validate and Task.Validate *)

TaskTypeDocker == "docker"
TaskTypeCommand == "command"
TaskTypeLLM == "llm"
TaskTypeFederatedLearning == "federated_learning"

\* the TaskType values a task may carry: the four constants, the empty
\* string and a string that is none of them
TaskTypes ==
    {TaskTypeDocker, TaskTypeCommand, TaskTypeLLM, TaskTypeFederatedLearning,
     "", "wasm"}

\* a TaskConfig, as far as Validate reads it
MkConfig(imageName) == [ImageName |-> imageName]

Configs == {MkConfig(""), MkConfig("img")}

\* json.Unmarshal(t.Config, &config) into a zero TaskConfig: the empty
\* message is no JSON, null leaves the config zero, an object sets the fields
\* it has, image_name must be a string, and an array is no TaskConfig
RawConfigs == {"", "null", "{}", "{image_name:img}", "{image_name:7}", "[]"}

Unmarshal(raw) ==
    CASE raw = "null" -> [ok |-> TRUE, config |-> MkConfig("")]
      [] raw = "{}" -> [ok |-> TRUE, config |-> MkConfig("")]
      [] raw = "{image_name:img}" -> [ok |-> TRUE, config |-> MkConfig("img")]
      [] OTHER -> [ok |-> FALSE, config |-> MkConfig("")]

\* *EnvironmentConfig: the nil pointer, or the Type of the environment
NilEnvironment == "<nil>"
Environments == {NilEnvironment, "docker", "native", ""}

\* a Task, as far as Validate reads it
MkTask(title, type, config, environment) ==
    [Title |-> title, Type |-> type, Config |-> config, Environment |-> environment]

Tasks ==
    {MkTask(title, type, config, environment) :
        title \in {"", "job"}, type \in TaskTypes,
        config \in RawConfigs, environment \in Environments}

\* (mutant: the image name is required for every recognized type)
TaskConfigValidate_ImageAlways(c, type) ==
    CASE type \in {TaskTypeDocker, TaskTypeCommand, TaskTypeLLM,
                   TaskTypeFederatedLearning} ->
            IF c.ImageName = ""
            THEN Err("image name is required for Docker tasks")
            ELSE NoErr
      [] OTHER -> ErrBody("unsupported task type", type)

\* TaskConfig.Validate(taskType)
TaskConfigValidate(c, type) ==
    CASE type = TaskTypeDocker ->
            IF c.ImageName = ""
            THEN Err("image name is required for Docker tasks")
            ELSE NoErr
      [] type = TaskTypeCommand -> NoErr
      [] type = TaskTypeLLM -> NoErr
      [] type = TaskTypeFederatedLearning -> NoErr
      [] OTHER -> ErrBody("unsupported task type", type)

\* (mutant: the config is decoded and validated before the title and the
\* type are looked at)
TaskValidate_ConfigFirst(t) ==
    LET decoded == Unmarshal(t.Config)
    IN  IF ~decoded.ok
        THEN Err("failed to unmarshal task config")
        ELSE IF TaskConfigValidate(decoded.config, t.Type) # NoErr
        THEN TaskConfigValidate(decoded.config, t.Type)
        ELSE IF t.Title = ""
        THEN Err("title is required")
        ELSE IF t.Type = ""
        THEN Err("task type is required")
        ELSE IF /\ t.Type = TaskTypeDocker
                /\ (t.Environment = NilEnvironment \/ t.Environment # "docker")
        THEN Err("docker environment configuration is required for docker tasks")
        ELSE NoErr

\* (mutant: the environment is not looked at)
TaskValidate_NoEnvironment(t) ==
    LET decoded == Unmarshal(t.Config)
    IN  IF t.Title = ""
        THEN Err("title is required")
        ELSE IF t.Type = ""
        THEN Err("task type is required")
        ELSE IF ~decoded.ok
        THEN Err("failed to unmarshal task config")
        ELSE TaskConfigValidate(decoded.config, t.Type)

\* Task.Validate()
TaskValidate(t) ==
    LET decoded == Unmarshal(t.Config)
    IN  IF t.Title = ""
        THEN Err("title is required")
        ELSE IF t.Type = ""
        THEN Err("task type is required")
        ELSE IF ~decoded.ok
        THEN Err("failed to unmarshal task config")
        ELSE IF TaskConfigValidate(decoded.config, t.Type) # NoErr
        THEN TaskConfigValidate(decoded.config, t.Type)
        ELSE IF /\ t.Type = TaskTypeDocker
                /\ (t.Environment = NilEnvironment \/ t.Environment # "docker")
        THEN Err("docker environment configuration is required for docker tasks")
        ELSE NoErr

\* the tasks of the server, as the client decodes them from the list of
\* available tasks: task 1 is a valid docker task, task 2 has no title
TaskOf(u) ==
    IF u = 2
    THEN MkTask("", TaskTypeDocker, "{image_name:img}", "docker")
    ELSE MkTask("job", TaskTypeDocker, "{image_name:img}", "docker")

\* no Validate call has been made
NotCalled == Err("<not called>")

----------------------------------------------------------------------------
(* runner: URLs *)

\* (mutant: the base URL is used as it is)
TrimSuffix_None(base) == base

\* strings.TrimSuffix(c.baseURL, "/api"); a URL is the sequence of its path
\* segments after the scheme, so the suffix "/api" is a last segment "api"
TrimSuffix(base) ==
    IF Len(base) > 0 /\ base[Len(base)] = "api"
    THEN SubSeq(base, 1, Len(base) - 1)
    ELSE base

\* fmt.Sprintf("%s/api/v1/...", baseURL, ...)
APIv1(base) == TrimSuffix(base) \o <<"api", "v1">>

AvailableURL(base) == APIv1(base) \o <<"runners", "tasks", "available">>
StartURL(base, id) == APIv1(base) \o <<"runners", "tasks", id, "start">>
\* (mutant: the complete call goes to the path of the start call)
CompleteURL_StartPath(base, id) == APIv1(base) \o <<"runners", "tasks", id, "start">>

CompleteURL(base, id) == APIv1(base) \o <<"runners", "tasks", id, "complete">>
ResultURL(base, id) == APIv1(base) \o <<"runners", "tasks", id, "result">>
PromptURL(base, p) == APIv1(base) \o <<"llm", "prompts", UUIDString(p), "complete">>
FLURL(base) == APIv1(base) \o <<"federated-learning", "model-updates">>

\* json decoding of an error response into struct{Error string}: the
\* "error" member of the body when the body is such a JSON object, else ""
ErrorField(text) == IF text = "{error:boom}" THEN "boom" ELSE ""

----------------------------------------------------------------------------
(* runner: GetAvailableTasks *)

\* up to http.Get(url): the default client, which sets no timeout
GetAvailableTasksSend(base, c) ==
    Send("GetAvailableTasks",
         [method |-> "GET", url |-> AvailableURL(base), device |-> NoHeader,
          ctype |-> "", body |-> NoBody, timeout |-> 0], c)

\* from the response on
GetAvailableTasksRecv(resp) ==
    IF resp.code # StatusOK
    THEN RetErr(ErrCode("unexpected status code", resp.code))
    ELSE IF ~resp.wellformed
         THEN RetErr(Err("failed to decode response"))
         ELSE RetTasks(resp.tasks)

GetAvailableTasksFail(url, cause) == RetErr(ErrURL("HTTP GET failed", url, cause))

----------------------------------------------------------------------------
(* runner: StartTask *)

\* (mutant: a 409 is taken for success)
StartTaskRecv_ConflictOK(resp) ==
    CASE resp.code \in {StatusOK, StatusConflict} -> RetOK
      [] resp.code = StatusBadRequest -> RetErr(ErrBody("bad request", resp.text))
      [] resp.code = StatusNotFound -> RetErr(Err("task not found"))
      [] OTHER ->
            RetErr(ErrCodeBody("unexpected status code, body", resp.code, resp.text))

\* (mutant: every 2xx status is taken for success)
StartTaskRecv_Any2xx(resp) ==
    CASE resp.code >= 200 /\ resp.code < 300 -> RetOK
      [] resp.code = StatusConflict -> RetErr(ErrBody("task unavailable", resp.text))
      [] resp.code = StatusBadRequest -> RetErr(ErrBody("bad request", resp.text))
      [] resp.code = StatusNotFound -> RetErr(Err("task not found"))
      [] OTHER ->
            RetErr(ErrCodeBody("unexpected status code, body", resp.code, resp.text))

\* the mapping of the response status to the outcome
StartTaskRecv(resp) ==
    CASE resp.code = StatusOK -> RetOK
      [] resp.code = StatusConflict -> RetErr(ErrBody("task unavailable", resp.text))
      [] resp.code = StatusBadRequest -> RetErr(ErrBody("bad request", resp.text))
      [] resp.code = StatusNotFound -> RetErr(Err("task not found"))
      [] OTHER ->
            RetErr(ErrCodeBody("unexpected status code, body", resp.code, resp.text))

StartTaskFail(url, cause) == RetErr(ErrURL("HTTP POST failed", url, cause))

\* (mutant: the X-Device-ID header is not set)
StartTaskRequest_NoHeader(base, id, deviceID) ==
    [method |-> "POST", url |-> StartURL(base, id), device |-> NoHeader,
     ctype |-> "", body |-> NoBody, timeout |-> 10]

\* the request StartTask builds: no body, the device identity as the
\* X-Device-ID header, a client with a 10 second timeout
StartTaskRequest(base, id, deviceID) ==
    [method |-> "POST", url |-> StartURL(base, id), device |-> deviceID,
     ctype |-> "", body |-> NoBody, timeout |-> 10]

\* up to client.Do(req); devOK: VerifyDeviceID succeeded
StartTaskSend(base, id, deviceID, devOK, c) ==
    IF ~devOK
    THEN Return(RetErr(Err("failed to get device ID")), c)
    ELSE IF ~URLParses(StartURL(base, id))
         THEN Return(RetErr(Err("failed to create request")), c)
         ELSE Send("StartTask", StartTaskRequest(base, id, deviceID), c)

----------------------------------------------------------------------------
(* runner: CompleteTask *)

\* the request http.Post(url, "application/json", nil) sends: the default
\* client (no timeout), no X-Device-ID header
CompleteTaskRequest(base, id) ==
    [method |-> "POST", url |-> CompleteURL(base, id), device |-> NoHeader,
     ctype |-> "application/json", body |-> NoBody, timeout |-> 0]

CompleteTaskFail(url, cause) == RetErr(ErrURL("HTTP POST failed", url, cause))

\* http.Post fails before sending when the URL does not parse
CompleteTaskSend(base, id, c) ==
    IF ~URLParses(CompleteURL(base, id))
    THEN Return(CompleteTaskFail(CompleteURL(base, id), "parse"), c)
    ELSE Send("CompleteTask", CompleteTaskRequest(base, id), c)

CompleteTaskRecv(resp) ==
    IF resp.code # StatusOK
    THEN RetErr(ErrCode("unexpected status code", resp.code))
    ELSE RetOK

----------------------------------------------------------------------------
(* runner: SaveTaskResult *)

\* (mutant: the defaults overwrite what the caller set)
FillDefaults_Always(result, id, now, deviceID) ==
    [isNil |-> FALSE, TaskID |-> ParseUUID(id), CreatedAt |-> now,
     RunnerAddress |-> deviceID]

\* the defaults filled into the caller's result before it is serialized
FillDefaults(result, id, now, deviceID) ==
    [isNil |-> FALSE,
     TaskID |-> IF result.TaskID = Nil THEN ParseUUID(id) ELSE result.TaskID,
     CreatedAt |-> IF result.CreatedAt = ZeroTime THEN now ELSE result.CreatedAt,
     RunnerAddress |->
        IF result.RunnerAddress = "" THEN deviceID ELSE result.RunnerAddress]

\* json.Marshal(result)
MarshalResult(result) ==
    [kind |-> "result", TaskID |-> result.TaskID, CreatedAt |-> result.CreatedAt,
     RunnerAddress |-> result.RunnerAddress, runner_id |-> ""]

\* the request SaveTaskResult builds; http.DefaultClient sets no timeout
SaveTaskResultRequest(base, id, deviceID, body) ==
    [method |-> "POST", url |-> ResultURL(base, id), device |-> deviceID,
     ctype |-> "application/json", body |-> body, timeout |-> 0]

\* up to http.DefaultClient.Do(req).  A nil result is dereferenced, and
\* uuid.MustParse panics on a taskID that is no UUID.
SaveTaskResultSend(base, id, result, deviceID, devOK, now, c) ==
    IF ~devOK
    THEN Return(RetErr(Err("failed to get device ID")), c)
    ELSE IF result.isNil \/ (result.TaskID = Nil /\ ParseUUID(id) = ParseFailed)
         THEN Panic(c)
         ELSE LET filled == FillDefaults(result, id, now, deviceID)
                  c2 == [c EXCEPT !.filled = filled,
                                  !.at = IF result.CreatedAt = ZeroTime
                                         THEN now ELSE ZeroTime]
              IN  IF ~URLParses(ResultURL(base, id))
                  THEN Return(RetErr(Err("failed to create request")), c2)
                  ELSE Send("SaveTaskResult",
                            SaveTaskResultRequest(base, id, deviceID,
                                                  MarshalResult(filled)), c2)

SaveTaskResultFail(url, cause) == RetErr(ErrURL("HTTP POST failed", url, cause))

SaveTaskResultRecv(resp) ==
    IF resp.code # StatusOK
    THEN IF ErrorField(resp.text) # ""
         THEN RetErr(ErrBody("server error", ErrorField(resp.text)))
         ELSE RetErr(ErrCode("unexpected status code", resp.code))
    ELSE RetOK

----------------------------------------------------------------------------
(* runner: CompletePrompt *)

CompletePromptRequest(base, promptID) ==
    [method |-> "POST", url |-> PromptURL(base, promptID), device |-> NoHeader,
     ctype |-> "application/json",
     body |-> [NoBody EXCEPT !.kind = "prompt"], timeout |-> 10]

CompletePromptSend(base, promptID, c) ==
    Send("CompletePrompt", CompletePromptRequest(base, promptID), c)

CompletePromptFail(url, cause) == RetErr(ErrURL("HTTP POST failed", url, cause))

CompletePromptRecv(resp) ==
    IF resp.code # StatusOK
    THEN IF ErrorField(resp.text) # ""
         THEN RetErr(ErrBody("server error", ErrorField(resp.text)))
         ELSE RetErr(ErrCode("unexpected status code", resp.code))
    ELSE RetOK

----------------------------------------------------------------------------
(* runner: SubmitFLModelUpdate *)

\* the payload carries the caller's runnerID as "runner_id" and the clock
\* reading as metadata.submission_time; the client has a 30 second timeout
SubmitFLModelUpdateRequest(base, runnerID, now) ==
    [method |-> "POST", url |-> FLURL(base), device |-> NoHeader,
     ctype |-> "application/json",
     body |-> [NoBody EXCEPT !.kind = "fl", !.runner_id = runnerID,
                             !.CreatedAt = now],
     timeout |-> 30]

\* json.Marshal fails on a loss or accuracy that is NaN or infinite
SubmitFLModelUpdateSend(base, runnerID, finite, now, c) ==
    IF ~finite
    THEN Return(RetErr(Err("failed to marshal FL model update")), c)
    ELSE Send("SubmitFLModelUpdate",
              SubmitFLModelUpdateRequest(base, runnerID, now),
              [c EXCEPT !.at = now])

SubmitFLModelUpdateFail(url, cause) ==
    RetErr(ErrURL("HTTP POST failed for FL model update", url, cause))

SubmitFLModelUpdateRecv(resp) ==
    IF resp.code # StatusOK
    THEN IF ErrorField(resp.text) # ""
         THEN RetErr(ErrBody("FL model update server error", ErrorField(resp.text)))
         ELSE RetErr(ErrCodeBody("FL model update unexpected status code, body",
                                 resp.code, resp.text))
    ELSE RetOK

----------------------------------------------------------------------------
(* runner: FetchTask *)

\* (mutant: the first entry is returned without being claimed)
FetchTaskAfterList_NoClaim(base, inner, deviceID, devOK, c) ==
    IF inner.err # NoErr
    THEN Return(RetErr(inner.err), c)
    ELSE IF Len(inner.tasks) = 0
         THEN Return(RetErr(Err("no tasks available")), c)
         ELSE Return(RetTask(inner.tasks[1]), [c EXCEPT !.task = inner.tasks[1]])

\* (mutant: the list is indexed without the length check, and tasks[0] of
\* an empty list panics)
FetchTaskAfterList_NoEmptyCheck(base, inner, deviceID, devOK, c) ==
    IF inner.err # NoErr
    THEN Return(RetErr(inner.err), c)
    ELSE IF Len(inner.tasks) = 0
         THEN Panic(c)
         ELSE StartTaskSend(base, UUIDString(inner.tasks[1]), deviceID, devOK,
                            [c EXCEPT !.task = inner.tasks[1]])

\* (mutant: the last entry of the list is claimed)
FetchTaskAfterList_LastEntry(base, inner, deviceID, devOK, c) ==
    IF inner.err # NoErr
    THEN Return(RetErr(inner.err), c)
    ELSE IF Len(inner.tasks) = 0
         THEN Return(RetErr(Err("no tasks available")), c)
         ELSE LET task == inner.tasks[Len(inner.tasks)]
              IN  StartTaskSend(base, UUIDString(task), deviceID, devOK,
                                [c EXCEPT !.task = task])

\* after GetAvailableTasks returned inner: the empty list, else the claim of
\* the first entry
FetchTaskAfterList(base, inner, deviceID, devOK, c) ==
    IF inner.err # NoErr
    THEN Return(RetErr(inner.err), c)
    ELSE IF Len(inner.tasks) = 0
         THEN Return(RetErr(Err("no tasks available")), c)
         ELSE LET task == inner.tasks[1]
              IN  StartTaskSend(base, UUIDString(task), deviceID, devOK,
                                [c EXCEPT !.task = task])

\* after StartTask returned inner
FetchTaskAfterStart(inner, c) ==
    IF inner.err # NoErr
    THEN Return(RetErr(inner.err), c)
    ELSE Return(RetTask(c.task), c)

----------------------------------------------------------------------------
(* runner: UpdateTaskStatus *)

\* (mutant: the default case completes the task)
UpdateTaskStatusSend_DefaultCompletes(base, id, st, deviceID, devOK, c) ==
    CASE st = TaskStatusRunning -> StartTaskSend(base, id, deviceID, devOK, c)
      [] OTHER -> CompleteTaskSend(base, id, c)

\* (mutant: a failed status is reported to the server in the request body)
UpdateTaskStatusSend_ReportsFailed(base, id, st, deviceID, devOK, c) ==
    CASE st = TaskStatusRunning -> StartTaskSend(base, id, deviceID, devOK, c)
      [] st = TaskStatusCompleted -> CompleteTaskSend(base, id, c)
      [] st = TaskStatusFailed ->
            LET out == CompleteTaskSend(base, id, c)
            IN  IF out.kind = "send"
                THEN [out EXCEPT !.req.body.kind = TaskStatusFailed]
                ELSE out
      [] OTHER -> Return(RetErr(ErrBody("unsupported status", st)), c)

\* the switch on status
UpdateTaskStatusSend(base, id, st, deviceID, devOK, c) ==
    CASE st = TaskStatusRunning -> StartTaskSend(base, id, deviceID, devOK, c)
      [] st \in {TaskStatusCompleted, TaskStatusFailed} -> CompleteTaskSend(base, id, c)
      [] OTHER -> Return(RetErr(ErrBody("unsupported status", st)), c)

\* (mutant: the error of CompleteTask is dropped)
UpdateTaskStatusAfterComplete_IgnoreError(base, inner, deviceID, devOK, now, c) ==
    IF ~c.result.isNil
    THEN SaveTaskResultSend(base, c.id, c.result, deviceID, devOK, now, c)
    ELSE Return(RetOK, c)

\* (mutant: a failed complete call is tried once more; c.at marks the retry)
UpdateTaskStatusAfterComplete_RetryOnce(base, inner, deviceID, devOK, now, c) ==
    IF inner.err # NoErr
    THEN IF c.at = ZeroTime
         THEN CompleteTaskSend(base, c.id, [c EXCEPT !.at = now])
         ELSE Return(RetErr(inner.err), c)
    ELSE IF ~c.result.isNil
         THEN SaveTaskResultSend(base, c.id, c.result, deviceID, devOK, now, c)
         ELSE Return(RetOK, c)

\* after CompleteTask returned inner
UpdateTaskStatusAfterComplete(base, inner, deviceID, devOK, now, c) ==
    IF inner.err # NoErr
    THEN Return(RetErr(inner.err), c)
    ELSE IF ~c.result.isNil
         THEN SaveTaskResultSend(base, c.id, c.result, deviceID, devOK, now, c)
         ELSE Return(RetOK, c)

----------------------------------------------------------------------------
(* runner: the step a blocked call takes when its request ends *)

\* the function that waits for the response reads it
Recv(st, resp) ==
    CASE st = "GetAvailableTasks" -> GetAvailableTasksRecv(resp)
      [] st = "StartTask" -> StartTaskRecv(resp)
      [] st = "CompleteTask" -> CompleteTaskRecv(resp)
      [] st = "SaveTaskResult" -> SaveTaskResultRecv(resp)
      [] st = "CompletePrompt" -> CompletePromptRecv(resp)
      [] OTHER -> SubmitFLModelUpdateRecv(resp)

\* the request ended with a transport error (err != nil from Get/Post/Do)
Fail(st, url, cause) ==
    CASE st = "GetAvailableTasks" -> GetAvailableTasksFail(url, cause)
      [] st = "StartTask" -> StartTaskFail(url, cause)
      [] st = "CompleteTask" -> CompleteTaskFail(url, cause)
      [] st = "SaveTaskResult" -> SaveTaskResultFail(url, cause)
      [] st = "CompletePrompt" -> CompletePromptFail(url, cause)
      [] OTHER -> SubmitFLModelUpdateFail(url, cause)

\* (mutant: when the result cannot be saved, UpdateTaskStatus asks the
\* server to start the task again before it returns)
Continue_Rollback(base, st, inner, deviceID, devOK, now, c) ==
    CASE c.op = "FetchTask" /\ st = "GetAvailableTasks" ->
            FetchTaskAfterList(base, inner, deviceID, devOK, c)
      [] c.op = "FetchTask" /\ st = "StartTask" ->
            FetchTaskAfterStart(inner, c)
      [] c.op = "UpdateTaskStatus" /\ st = "CompleteTask" ->
            UpdateTaskStatusAfterComplete(base, inner, deviceID, devOK, now, c)
      [] c.op = "UpdateTaskStatus" /\ st = "SaveTaskResult" /\ inner.err # NoErr ->
            StartTaskSend(base, c.id, deviceID, TRUE, c)
      [] OTHER -> Return(inner, c)

\* the function st returned inner to the operation c.op that called it
Continue(base, st, inner, deviceID, devOK, now, c) ==
    CASE c.op = "FetchTask" /\ st = "GetAvailableTasks" ->
            FetchTaskAfterList(base, inner, deviceID, devOK, c)
      [] c.op = "FetchTask" /\ st = "StartTask" ->
            FetchTaskAfterStart(inner, c)
      [] c.op = "UpdateTaskStatus" /\ st = "CompleteTask" ->
            UpdateTaskStatusAfterComplete(base, inner, deviceID, devOK, now, c)
      [] OTHER -> Return(inner, c)

----------------------------------------------------------------------------
(* the coordination server, from the interface tables of the specification *)

ServerRoot == <<"h">>

\* the part of a URL after <root>/api/v1, or <<>> for a URL of another root
ServerPath(url) ==
    LET n == Len(ServerRoot) + 2
    IN  IF Len(url) >= n /\ SubSeq(url, 1, n) = ServerRoot \o <<"api", "v1">>
        THEN SubSeq(url, n + 1, Len(url))
        ELSE <<>>

Response(code, text) ==
    [code |-> code, text |-> text, tasks |-> <<>>, wellformed |-> TRUE]

\* the claimable tasks, in the order the server lists them
PendingTasks(st, rev) ==
    SelectSeq(IF rev THEN <<2, 1>> ELSE <<1, 2>>,
              LAMBDA t : t \in DOMAIN st /\ st[t] = TaskStatusPending)

\* GET /runners/tasks/available
ServerAvailable(st, sto, garbage, rev) ==
    [status |-> st, stored |-> sto,
     resp |-> [code |-> StatusOK, text |-> "", tasks |-> PendingTasks(st, rev),
               wellformed |-> ~garbage]]

\* POST /runners/tasks/{id}/start: a pending task becomes running; a task
\* that is not pending is answered 409
ServerStart(st, sto, id, text) ==
    LET t == ParseUUID(id)
    IN  IF t = ParseFailed
        THEN [status |-> st, stored |-> sto, resp |-> Response(StatusBadRequest, text)]
        ELSE IF t \notin DOMAIN st
        THEN [status |-> st, stored |-> sto, resp |-> Response(StatusNotFound, text)]
        ELSE IF st[t] = TaskStatusPending
        THEN [status |-> [st EXCEPT ![t] = TaskStatusRunning], stored |-> sto,
              resp |-> Response(StatusOK, "")]
        ELSE [status |-> st, stored |-> sto, resp |-> Response(StatusConflict, text)]

\* POST /runners/tasks/{id}/complete: a running task becomes terminal
ServerComplete(st, sto, id, text) ==
    LET t == ParseUUID(id)
    IN  IF t = ParseFailed
        THEN [status |-> st, stored |-> sto, resp |-> Response(StatusBadRequest, text)]
        ELSE IF t \notin DOMAIN st
        THEN [status |-> st, stored |-> sto, resp |-> Response(StatusNotFound, text)]
        ELSE IF st[t] = TaskStatusRunning
        THEN [status |-> [st EXCEPT ![t] = TaskStatusCompleted], stored |-> sto,
              resp |-> Response(StatusOK, "")]
        ELSE [status |-> st, stored |-> sto, resp |-> Response(StatusConflict, text)]

\* POST /runners/tasks/{id}/result: the body is stored for the task
ServerResult(st, sto, id, body, text) ==
    LET t == ParseUUID(id)
    IN  IF t = ParseFailed \/ body.kind # "result"
        THEN [status |-> st, stored |-> sto, resp |-> Response(StatusBadRequest, text)]
        ELSE IF t \notin DOMAIN st
        THEN [status |-> st, stored |-> sto, resp |-> Response(StatusNotFound, text)]
        ELSE [status |-> st, stored |-> [sto EXCEPT ![t] = body],
              resp |-> Response(StatusOK, "")]

\* faults of the server: none, a 500, a 204, or a 200 whose body is no JSON
Faults(sc) == IF sc = "solo" THEN {"none", "error", "nocontent", "garbage"} ELSE {"none"}

\* bodies of a non-200 response: empty, or a JSON object with an error
Texts(sc) == IF sc = "solo" THEN {"", "{error:boom}"} ELSE {"{error:boom}"}

\* the server handles request q in state (st, sto)
ServerHandle(q, st, sto, fault, text, rev) ==
    LET path == ServerPath(q.url)
        keep(code) == [status |-> st, stored |-> sto, resp |-> Response(code, text)]
        isTask(name) ==
            /\ q.method = "POST" /\ Len(path) = 4
            /\ path[1] = "runners" /\ path[2] = "tasks" /\ path[4] = name
    IN  CASE fault = "error" -> keep(500)
          [] fault = "nocontent" -> keep(204)
          [] q.method = "GET" /\ path = <<"runners", "tasks", "available">> ->
                ServerAvailable(st, sto, fault = "garbage", rev)
          [] isTask("start") -> ServerStart(st, sto, path[3], text)
          [] isTask("complete") -> ServerComplete(st, sto, path[3], text)
          [] isTask("result") -> ServerResult(st, sto, path[3], q.body, text)
          [] /\ q.method = "POST" /\ Len(path) = 4
             /\ path[1] = "llm" /\ path[2] = "prompts" /\ path[4] = "complete" ->
                keep(StatusOK)
          [] q.method = "POST" /\ path = <<"federated-learning", "model-updates">> ->
                keep(StatusOK)
          [] OTHER -> keep(StatusNotFound)

----------------------------------------------------------------------------
(* the state machine *)

\* the base URLs the client of r1 may be built with: the server's root, the
\* root with one "/api" suffix and, when r1 is alone, with two
BaseURLs(sc) ==
    IF sc = "solo"
    THEN {ServerRoot, ServerRoot \o <<"api">>, ServerRoot \o <<"api", "api">>}
    ELSE {ServerRoot}

Init ==
    /\ scenario \in Scenarios
    /\ \E b \in BaseURLs(scenario) :
          baseURL = [r \in Runners |-> IF r = "r1" THEN b ELSE ServerRoot \o <<"api">>]
    /\ pc = [r \in Runners |-> "idle"]
    /\ call = [r \in Runners |-> NoCall]
    /\ stage = [r \in Runners |-> ""]
    /\ req = [r \in Runners |-> NoReq]
    /\ log = [r \in Runners |-> <<>>]
    /\ ret = [r \in Runners |-> RetOK]
    /\ held = [r \in Runners |-> {}]
    /\ status = [t \in TasksOf(scenario) |-> TaskStatusPending]
    /\ stored = [t \in TasksOf(scenario) |-> NoBody]
    /\ theTask = TaskOf(1)
    /\ taskErr = NotCalled
    /\ theConfig = MkConfig("")
    /\ taskType = ""
    /\ configErr = NotCalled

\* the task a successful call claimed for its caller, or Nil
Claimed(out) ==
    IF out.kind # "return" \/ out.ret.err # NoErr
    THEN Nil
    ELSE CASE out.call.op = "FetchTask" -> out.ret.task
           [] out.call.op = "StartTask" -> ParseUUID(out.call.id)
           [] out.call.op = "UpdateTaskStatus"
              /\ out.call.status = TaskStatusRunning -> ParseUUID(out.call.id)
           [] OTHER -> Nil

\* no response: the request ended with a transport error
NoResponse == [code |-> 0, text |-> "", tasks |-> <<>>, wellformed |-> FALSE]

\* runner r got as far as out; ended is the request that just ended, with
\* its response, if one did
Apply(r, out, ended) ==
    /\ pc' = [pc EXCEPT ![r] =
                CASE out.kind = "send" -> "wait"
                  [] out.kind = "return" -> "done"
                  [] OTHER -> "crashed"]
    /\ call' = [call EXCEPT ![r] = out.call]
    /\ stage' = [stage EXCEPT ![r] = out.stage]
    /\ req' = [req EXCEPT ![r] = out.req]
    /\ log' = [log EXCEPT ![r] = @ \o ended]
    /\ ret' = [ret EXCEPT ![r] = out.ret]
    /\ held' = [held EXCEPT ![r] = IF Claimed(out) = Nil THEN @ ELSE @ \cup {Claimed(out)}]
    /\ UNCHANGED <<scenario, baseURL>>
    /\ UNCHANGED modelsVars

\* runner r is about to call an operation
Idle(r) == r \in Active(scenario) /\ pc[r] = "idle"

\* a call begins and runs to out
Begin(r, out) == Apply(r, out, <<>>)

\* the outstanding request of r ended with resp, and the call runs on to out
End(r, resp, out) == Apply(r, out, <<[req |-> req[r], resp |-> resp]>>)

(* a caller invokes an operation of its client *)

FetchTask(r) ==
    /\ Idle(r)
    /\ Begin(r, GetAvailableTasksSend(baseURL[r], Call("FetchTask", "", "", NilResult, TRUE)))
    /\ UNCHANGED <<status, stored>>

GetAvailableTasks(r) ==
    /\ Idle(r) /\ scenario = "solo"
    /\ Begin(r, GetAvailableTasksSend(baseURL[r],
                                       Call("GetAvailableTasks", "", "", NilResult, TRUE)))
    /\ UNCHANGED <<status, stored>>

StartTask(r) ==
    /\ Idle(r)
    /\ \E id \in IdArgs(scenario), devOK \in BOOLEAN :
          Begin(r, StartTaskSend(baseURL[r], id, DeviceIDOf(r), devOK,
                                 Call("StartTask", id, "", NilResult, TRUE)))
    /\ UNCHANGED <<status, stored>>

CompleteTask(r) ==
    /\ Idle(r) /\ scenario = "solo"
    /\ \E id \in IdArgs(scenario) :
          Begin(r, CompleteTaskSend(baseURL[r], id,
                                    Call("CompleteTask", id, "", NilResult, TRUE)))
    /\ UNCHANGED <<status, stored>>

SaveTaskResult(r) ==
    /\ Idle(r) /\ scenario = "solo"
    /\ \E id \in IdArgs(scenario), result \in ResultArgs, devOK \in BOOLEAN, now \in ClockTimes :
          Begin(r, SaveTaskResultSend(baseURL[r], id, result, DeviceIDOf(r), devOK, now,
                                      Call("SaveTaskResult", id, "", result, TRUE)))
    /\ UNCHANGED <<status, stored>>

UpdateTaskStatus(r) ==
    /\ Idle(r)
    /\ \E id \in IdArgs(scenario), a \in UpdateArgs(scenario), devOK \in BOOLEAN :
          Begin(r, UpdateTaskStatusSend(baseURL[r], id, a[1], DeviceIDOf(r), devOK,
                                        Call("UpdateTaskStatus", id, a[1], a[2], TRUE)))
    /\ UNCHANGED <<status, stored>>

CompletePrompt(r) ==
    /\ Idle(r) /\ scenario = "solo"
    /\ Begin(r, CompletePromptSend(baseURL[r], 2,
                                    Call("CompletePrompt", "t2", "", NilResult, TRUE)))
    /\ UNCHANGED <<status, stored>>

SubmitFLModelUpdate(r) ==
    /\ Idle(r) /\ scenario = "solo"
    /\ \E finite \in BOOLEAN, now \in ClockTimes :
          Begin(r, SubmitFLModelUpdateSend(baseURL[r], "runner", finite, now,
                    Call("SubmitFLModelUpdate", "runner", "", NilResult, finite)))
    /\ UNCHANGED <<status, stored>>

(* the outstanding request of a blocked call ends *)

\* the server handles the request and the client reads the response
Exchange(r) ==
    /\ pc[r] = "wait"
    /\ \E fault \in Faults(scenario), text \in Texts(scenario), rev \in BOOLEAN,
          devOK \in BOOLEAN, now \in ClockTimes :
          LET h == ServerHandle(req[r], status, stored, fault, text, rev)
          IN  /\ status' = h.status
              /\ stored' = h.stored
              /\ End(r, h.resp,
                     Continue(baseURL[r], stage[r], Recv(stage[r], h.resp),
                              DeviceIDOf(r), devOK, now, call[r]))

\* the server handles the request, and the response never reaches the
\* client, whose call to Get/Post/Do ends with an error
LostReply(r) ==
    /\ pc[r] = "wait"
    /\ \E text \in Texts(scenario), rev \in BOOLEAN, devOK \in BOOLEAN, now \in ClockTimes :
          LET h == ServerHandle(req[r], status, stored, "none", text, rev)
          IN  /\ status' = h.status
              /\ stored' = h.stored
              /\ End(r, NoResponse,
                     Continue(baseURL[r], stage[r], Fail(stage[r], req[r].url, "connection"),
                              DeviceIDOf(r), devOK, now, call[r]))

\* the request never reaches the server (connection refused or reset)
ConnError(r) ==
    /\ pc[r] = "wait"
    /\ \E devOK \in BOOLEAN, now \in ClockTimes :
          End(r, NoResponse,
              Continue(baseURL[r], stage[r], Fail(stage[r], req[r].url, "connection"),
                       DeviceIDOf(r), devOK, now, call[r]))
    /\ UNCHANGED <<status, stored>>

\* http.Client.Timeout of the request's client expires before any answer
Timeout(r) ==
    /\ pc[r] = "wait"
    /\ req[r].timeout > 0
    /\ \E devOK \in BOOLEAN, now \in ClockTimes :
          End(r, NoResponse,
              Continue(baseURL[r], stage[r], Fail(stage[r], req[r].url, "timeout"),
                       DeviceIDOf(r), devOK, now, call[r]))
    /\ UNCHANGED <<status, stored>>

\* the caller takes the returned value; the client keeps nothing of the call
CallReturns(r) ==
    /\ pc[r] = "done"
    /\ pc' = [pc EXCEPT ![r] = "idle"]
    /\ call' = [call EXCEPT ![r] = NoCall]
    /\ log' = [log EXCEPT ![r] = <<>>]
    /\ ret' = [ret EXCEPT ![r] = RetOK]
    /\ UNCHANGED <<scenario, baseURL, stage, req, held, status, stored>>
    /\ UNCHANGED modelsVars

Next ==
    \E r \in Runners :
        \/ FetchTask(r)
        \/ GetAvailableTasks(r)
        \/ StartTask(r)
        \/ CompleteTask(r)
        \/ SaveTaskResult(r)
        \/ UpdateTaskStatus(r)
        \/ CompletePrompt(r)
        \/ SubmitFLModelUpdate(r)
        \/ Exchange(r)
        \/ LostReply(r)
        \/ ConnError(r)
        \/ Timeout(r)
        \/ CallReturns(r)

Spec == Init /\ [][Next]_vars

----------------------------------------------------------------------------
(* the task model on its own: Validate applied to every task and config *)

clientVars == <<scenario, baseURL, pc, call, stage, req, log, ret, held, status, stored>>

ValidateInit ==
    /\ scenario = "solo"
    /\ baseURL = [r \in Runners |-> ServerRoot]
    /\ pc = [r \in Runners |-> "idle"]
    /\ call = [r \in Runners |-> NoCall]
    /\ stage = [r \in Runners |-> ""]
    /\ req = [r \in Runners |-> NoReq]
    /\ log = [r \in Runners |-> <<>>]
    /\ ret = [r \in Runners |-> RetOK]
    /\ held = [r \in Runners |-> {}]
    /\ status = [t \in TasksOf(scenario) |-> TaskStatusPending]
    /\ stored = [t \in TasksOf(scenario) |-> NoBody]
    /\ theTask \in Tasks
    /\ taskErr = NotCalled
    /\ theConfig \in Configs
    /\ taskType \in TaskTypes
    /\ configErr = NotCalled

\* t.Validate() is called
ValidateTask ==
    /\ taskErr = NotCalled
    /\ taskErr' = TaskValidate(theTask)
    /\ UNCHANGED <<theTask, theConfig, taskType, configErr>>
    /\ UNCHANGED clientVars

\* c.Validate(taskType) is called
ValidateConfig ==
    /\ configErr = NotCalled
    /\ configErr' = TaskConfigValidate(theConfig, taskType)
    /\ UNCHANGED <<theTask, taskErr, theConfig, taskType>>
    /\ UNCHANGED clientVars

ValidateNext == ValidateTask \/ ValidateConfig

ValidateSpec == ValidateInit /\ [][ValidateNext]_vars

----------------------------------------------------------------------------
(* vocabulary of the properties *)

\* the endpoint a request goes to: the last segment of its URL
EndpointOf(q) == q.url[Len(q.url)]

\* the endpoints of the requests a call made, in order
Endpoints(r) == [i \in 1..Len(log[r]) |-> EndpointOf(log[r][i].req)]

\* the call of r has returned and its caller has not yet taken the result
Done(r) == pc[r] = "done"

\* r's call is UpdateTaskStatus with status completed or failed
Finishing(r) ==
    /\ call[r].op = "UpdateTaskStatus"
    /\ call[r].status \in {TaskStatusCompleted, TaskStatusFailed}

\* the last request of r's call was a claim (start) request that the server
\* answered
StartAnswered(r) ==
    /\ Len(log[r]) > 0
    /\ EndpointOf(log[r][Len(log[r])].req) = "start"
    /\ log[r][Len(log[r])].resp.code # 0

\* the task that claim request named
StartedTask(r) ==
    LET q == log[r][Len(log[r])].req IN ParseUUID(q.url[Len(q.url) - 1])

----------------------------------------------------------------------------
(* C1 *)

\* C1: end to end.  With one caller and a server holding the one pending
\* task, a FetchTask that returns a task returns that task, and the server
\* then reports it running; when the caller that claimed a task afterwards
\* calls UpdateTaskStatus(task, completed, result) with a non-nil result and
\* the call succeeds, the server has the task completed and stores the
\* result the call sent.
C1_EndToEnd ==
    \A r \in Runners :
        /\ (scenario = "solo" /\ Done(r) /\ call[r].op = "FetchTask"
                /\ ret[r].err = NoErr)
            => /\ ret[r].task \in DOMAIN status
               /\ status[ret[r].task] = TaskStatusRunning
               /\ Endpoints(r) = <<"available", "start">>
        /\ (Done(r) /\ call[r].op = "UpdateTaskStatus"
                /\ call[r].status = TaskStatusCompleted /\ ~call[r].result.isNil
                /\ ParseUUID(call[r].id) \in held[r] /\ ret[r].err = NoErr)
            => LET t == ParseUUID(call[r].id)
               IN  /\ status[t] = TaskStatusCompleted
                   /\ stored[t].kind = "result"
                   /\ Len(log[r]) = 2 /\ stored[t] = log[r][2].req.body

C1_Witness ==
    \E r \in Runners :
        /\ Done(r) /\ call[r].op = "UpdateTaskStatus"
        /\ call[r].status = TaskStatusCompleted /\ ~call[r].result.isNil
        /\ ParseUUID(call[r].id) \in held[r] /\ ret[r].err = NoErr
        /\ status[1] = TaskStatusCompleted /\ stored[1].kind = "result"

----------------------------------------------------------------------------
(* C2 *)

\* C2: claiming is exclusive.  No task is ever held as claimed by two
\* runners; a runner whose claim request for a task that another runner
\* holds was answered by the server was answered 409 and returns the "task
\* unavailable" error and no task; and among competing runners every
\* answered claim request either succeeded (200) or ended in that error.
C2_ExclusiveClaim ==
    /\ \A r1, r2 \in Runners : r1 # r2 => held[r1] \cap held[r2] = {}
    /\ \A r \in Runners :
          (scenario = "race" /\ Done(r) /\ StartAnswered(r))
          => \/ /\ log[r][Len(log[r])].resp.code = StatusOK
                /\ ret[r].err = NoErr
                /\ StartedTask(r) \in held[r]
             \/ /\ log[r][Len(log[r])].resp.code = StatusConflict
                /\ ret[r].err.kind = "task unavailable"
    /\ \A r \in Runners :
          (/\ Done(r) /\ StartAnswered(r)
           /\ \E r2 \in Runners \ {r} : StartedTask(r) \in held[r2])
          => /\ log[r][Len(log[r])].resp.code = StatusConflict
             /\ ret[r].err.kind = "task unavailable"
             /\ ret[r].task = Nil

C2_Witness ==
    \E r1, r2 \in Runners :
        /\ r1 # r2
        /\ Done(r1) /\ call[r1].op = "FetchTask" /\ ret[r1].err = NoErr
        /\ ret[r1].task \in held[r1]
        /\ Done(r2) /\ call[r2].op = "FetchTask" /\ StartAnswered(r2)
        /\ StartedTask(r2) = ret[r1].task
        /\ ret[r2].err.kind = "task unavailable"

----------------------------------------------------------------------------
(* C3 *)

\* C3: every change of a task's status on the server is pending -> running,
\* made by a request of StartTask for that task, or running -> completed |
\* failed, made by a request of CompleteTask for that task; and a step in
\* which a claim request is answered 409 changes no status.
C3_StatusProgress ==
    [][/\ \A t \in DOMAIN status :
             status'[t] # status[t]
             => \E r \in Runners :
                  /\ Len(log'[r]) = Len(log[r]) + 1
                  /\ log'[r][Len(log'[r])].req = req[r]
                  /\ ParseUUID(req[r].url[Len(req[r].url) - 1]) = t
                  /\ \/ /\ status[t] = TaskStatusPending
                        /\ status'[t] = TaskStatusRunning
                        /\ stage[r] = "StartTask"
                     \/ /\ status[t] = TaskStatusRunning
                        /\ status'[t] \in {TaskStatusCompleted, TaskStatusFailed}
                        /\ stage[r] = "CompleteTask"
       /\ \A r \in Runners :
             (/\ Len(log'[r]) = Len(log[r]) + 1
              /\ EndpointOf(log'[r][Len(log'[r])].req) = "start"
              /\ log'[r][Len(log'[r])].resp.code = StatusConflict)
             => status' = status]_vars

C3_Witness ==
    \E r \in Runners, t \in DOMAIN status :
        /\ Done(r) /\ StartAnswered(r) /\ StartedTask(r) = t
        /\ log[r][Len(log[r])].resp.code = StatusConflict
        /\ status[t] = TaskStatusCompleted

----------------------------------------------------------------------------
(* C4 *)

\* C4 as stated: a finished UpdateTaskStatus with status completed or failed
\* (for a task id that is a UUID) made exactly the calls complete,
\* save-result (non-nil result) or exactly the call complete (nil result).
C4_AsStated ==
    \A r \in Runners :
        (Done(r) /\ Finishing(r) /\ ParseUUID(call[r].id) # ParseFailed)
        => Endpoints(r) = IF call[r].result.isNil
                          THEN <<"complete">>
                          ELSE <<"complete", "result">>

\* C4, amended: UpdateTaskStatus with status completed or failed makes the
\* complete call first and the save-result call second, the second one
\* exactly when the result is non-nil, the complete call was answered 200
\* and the device identity resolved; it makes no call when the URL of the
\* complete call cannot be built.  A call that returns success made exactly
\* two calls (non-nil result) or exactly one (nil result).
C4_CallSequence ==
    \A r \in Runners :
        (pc[r] \in {"done", "crashed"} /\ Finishing(r))
        => /\ Endpoints(r) =
                IF ~URLParses(CompleteURL(baseURL[r], call[r].id))
                THEN <<>>
                ELSE IF /\ ~call[r].result.isNil
                        /\ log[r][1].resp.code = StatusOK
                        /\ ret[r].err.kind # "failed to get device ID"
                        /\ pc[r] = "done"
                     THEN <<"complete", "result">>
                     ELSE <<"complete">>
           /\ (Done(r) /\ ret[r].err = NoErr)
              => Endpoints(r) = IF call[r].result.isNil
                                THEN <<"complete">>
                                ELSE <<"complete", "result">>

C4_Witness ==
    \E r \in Runners :
        /\ Done(r) /\ Finishing(r) /\ ~call[r].result.isNil
        /\ Endpoints(r) = <<"complete", "result">>
        /\ log[r][1].resp.code = StatusOK /\ log[r][2].resp.code = StatusOK
        /\ ret[r].err = NoErr

----------------------------------------------------------------------------
(* C5 *)

\* C5: an UpdateTaskStatus whose status is none of running, completed,
\* failed has returned the "unsupported status" error naming that status,
\* has issued no request and has none outstanding.
C5_UnsupportedStatus ==
    \A r \in Runners :
        (/\ call[r].op = "UpdateTaskStatus"
         /\ call[r].status \notin
                {TaskStatusRunning, TaskStatusCompleted, TaskStatusFailed})
        => /\ Done(r)
           /\ ret[r].err = ErrBody("unsupported status", call[r].status)
           /\ log[r] = <<>>
           /\ req[r] = NoReq

C5_Witness ==
    \E r \in Runners :
        /\ Done(r) /\ call[r].op = "UpdateTaskStatus"
        /\ call[r].status = TaskStatusPending
        /\ ~call[r].result.isNil
        /\ ret[r].err.kind = "unsupported status"

----------------------------------------------------------------------------
(* C6 *)

\* the first request of r's call was answered 200 with the empty task list
EmptyListAnswered(r) ==
    /\ Len(log[r]) >= 1
    /\ EndpointOf(log[r][1].req) = "available"
    /\ log[r][1].resp.code = StatusOK
    /\ log[r][1].resp.wellformed
    /\ log[r][1].resp.tasks = <<>>

\* C6: a FetchTask whose GetAvailableTasks returned the empty list has
\* returned the "no tasks available" error and no task, and has made no
\* claim request.
C6_EmptyList ==
    \A r \in Runners :
        (call[r].op = "FetchTask" /\ EmptyListAnswered(r))
        => /\ Done(r)
           /\ ret[r] = RetErr(Err("no tasks available"))
           /\ Endpoints(r) = <<"available">>
           /\ req[r] = NoReq

C6_Witness ==
    \E r \in Runners :
        /\ call[r].op = "FetchTask" /\ EmptyListAnswered(r)
        /\ ret[r].err.kind = "no tasks available"

----------------------------------------------------------------------------
(* C7 *)

\* C7: the outcome of a StartTask whose request was answered is decided by
\* the status code: 200 success, 409 "task unavailable" with the body, 400
\* "bad request" with the body, 404 "task not found", any other code the
\* unexpected-status error with the code and the body; success only for 200.
C7_StartTaskMapping ==
    \A r \in Runners :
        (Done(r) /\ call[r].op = "StartTask" /\ StartAnswered(r))
        => LET resp == log[r][Len(log[r])].resp
               e == ret[r].err
           IN  /\ resp.code = StatusOK => e = NoErr
               /\ resp.code = StatusConflict
                  => e = ErrBody("task unavailable", resp.text)
               /\ resp.code = StatusBadRequest
                  => e = ErrBody("bad request", resp.text)
               /\ resp.code = StatusNotFound => e = Err("task not found")
               /\ resp.code \notin
                     {StatusOK, StatusConflict, StatusBadRequest, StatusNotFound}
                  => e = ErrCodeBody("unexpected status code, body",
                                     resp.code, resp.text)
               /\ e = NoErr => resp.code = StatusOK

C7_Witness ==
    \E r \in Runners :
        /\ Done(r) /\ call[r].op = "StartTask" /\ StartAnswered(r)
        /\ log[r][1].resp.code = StatusConflict
        /\ ret[r].err = ErrBody("task unavailable", "{error:boom}")

----------------------------------------------------------------------------
(* C8 *)

\* C8: the result a save-result request carries is the caller's result with
\* the defaults filled in only where absent: an unset TaskID is the UUID of
\* the path id, a zero CreatedAt the clock reading of the call, an empty
\* RunnerAddress the device identity; fields the caller set are unchanged.
C8_ResultDefaults ==
    \A r \in Runners :
        (pc[r] = "wait" /\ stage[r] = "SaveTaskResult")
        => LET in == call[r].result
               b == req[r].body
           IN  /\ b.kind = "result"
               /\ EndpointOf(req[r]) = "result"
               /\ b.TaskID = IF in.TaskID = Nil
                              THEN ParseUUID(call[r].id) ELSE in.TaskID
               /\ b.TaskID \notin {Nil, ParseFailed}
               /\ b.CreatedAt = IF in.CreatedAt = ZeroTime
                                 THEN call[r].at ELSE in.CreatedAt
               /\ b.CreatedAt # ZeroTime
               /\ in.CreatedAt = ZeroTime => call[r].at \in ClockTimes
               /\ b.RunnerAddress = IF in.RunnerAddress = ""
                                     THEN DeviceIDOf(r) ELSE in.RunnerAddress

C8_Witness ==
    \E r \in Runners :
        /\ pc[r] = "wait" /\ stage[r] = "SaveTaskResult"
        /\ call[r].result = MkResult(Nil, 1, "")
        /\ req[r].body.TaskID = 1 /\ req[r].body.CreatedAt = 1
        /\ req[r].body.RunnerAddress = DeviceIDOf(r)

----------------------------------------------------------------------------
(* C9 *)

\* C9 as stated: every outstanding POST request carries the caller's device
\* identity as its X-Device-ID header.
C9_AsStated ==
    \A r \in Runners :
        (pc[r] = "wait" /\ req[r].method = "POST")
        => req[r].device = DeviceIDOf(r)

\* C9, amended: the requests of StartTask and SaveTaskResult carry the
\* caller's device identity as the X-Device-ID header; the requests of
\* CompleteTask, CompletePrompt and SubmitFLModelUpdate (and of
\* GetAvailableTasks) carry no X-Device-ID header.
C9_DeviceHeader ==
    \A r \in Runners :
        pc[r] = "wait"
        => /\ stage[r] \in {"StartTask", "SaveTaskResult"}
              => req[r].device = DeviceIDOf(r) /\ req[r].device # NoHeader
           /\ stage[r] \notin {"StartTask", "SaveTaskResult"}
              => req[r].device = NoHeader

C9_Witness ==
    \E r \in Runners :
        /\ pc[r] = "wait" /\ stage[r] = "SaveTaskResult"
        /\ req[r].device = DeviceIDOf(r)
        /\ Len(log[r]) = 1 /\ EndpointOf(log[r][1].req) = "complete"
        /\ log[r][1].req.device = NoHeader

----------------------------------------------------------------------------
(* C10 *)

\* C10: every HTTP call of the client has a bounded timeout: a call that
\* blocks in a request blocks in one whose client has a timeout set.
C10_EveryCallBounded ==
    \A r \in Runners : pc[r] = "wait" => req[r].timeout > 0

----------------------------------------------------------------------------
(* C11 *)

\* the requests r's call has sent so far, in order: those that ended and the
\* one outstanding
Requests(r) ==
    [i \in 1..Len(log[r]) |-> log[r][i].req]
    \o (IF pc[r] = "wait" THEN <<req[r]>> ELSE <<>>)

\* C11: no retries.  Within one call no endpoint is requested twice, and a
\* request that ended with a transport failure or a response other than 200
\* is the last request of its call: the call has returned, with an error
\* (the transport error carries the URL that was tried), and no request is
\* outstanding.
C11_NoRetry ==
    \A r \in Runners :
        /\ \A i, j \in 1..Len(Requests(r)) :
              i # j => EndpointOf(Requests(r)[i]) # EndpointOf(Requests(r)[j])
        /\ \A i \in 1..Len(log[r]) :
              log[r][i].resp.code # StatusOK
              => /\ i = Len(log[r])
                 /\ pc[r] = "done"
                 /\ ret[r].err # NoErr
                 /\ log[r][i].resp = NoResponse
                    => ret[r].err.url = log[r][i].req.url /\ ret[r].err.cause # ""

\* an UpdateTaskStatus with a result whose complete request failed returned
\* after that one request
C11_Witness ==
    \E r \in Runners :
        /\ Done(r) /\ Finishing(r) /\ ~call[r].result.isNil
        /\ Endpoints(r) = <<"complete">>
        /\ log[r][1].resp.code # StatusOK
        /\ ret[r].err # NoErr

----------------------------------------------------------------------------
(* C12 *)

TerminalStatuses == {TaskStatusCompleted, TaskStatusFailed}

\* the errors SaveTaskResult returns
SaveTaskResultErrors ==
    {"failed to get device ID", "failed to create request", "HTTP POST failed",
     "server error", "unexpected status code"}

\* r's UpdateTaskStatus(id, completed|failed, result) has returned, its
\* complete request was answered 200, and its save-result step did not get
\* a 200: the request was not sent, failed in transport, or was answered
\* with another status
PartialSuccess(r) ==
    /\ Done(r) /\ Finishing(r) /\ ~call[r].result.isNil
    /\ Len(log[r]) >= 1
    /\ log[r][1].resp.code = StatusOK
    /\ Len(log[r]) >= 2 => log[r][2].resp.code # StatusOK

\* what the client does on a partial success: the error of SaveTaskResult
\* is returned and no request follows; and when the complete request itself
\* fails, it is the only request
ClientOnPartialSuccess(r) ==
    /\ PartialSuccess(r)
       => /\ ret[r].err.kind \in SaveTaskResultErrors
          /\ Len(log[r]) = 1 => ret[r].err.kind = "failed to get device ID"
          /\ Len(log[r]) <= 2
          /\ Len(log[r]) = 2 => EndpointOf(log[r][2].req) = "result"
          /\ status[ParseUUID(call[r].id)] \in TerminalStatuses
    /\ (Done(r) /\ Finishing(r) /\ Len(log[r]) >= 1 /\ log[r][1].resp.code # StatusOK)
       => Len(log[r]) = 1 /\ ret[r].err # NoErr

\* C12 as stated: after a partial success, whatever made the save-result
\* step fail, the error of SaveTaskResult is returned, no request follows,
\* and the task is terminal on the server with no result attached.
C12_AsStated ==
    \A r \in Runners :
        /\ ClientOnPartialSuccess(r)
        /\ PartialSuccess(r) => stored[ParseUUID(call[r].id)] = NoBody

\* C12, amended: no rollback.  After a partial success the error of
\* SaveTaskResult is returned, no request follows and the task is terminal
\* on the server; the step in which the save-result step fails leaves the
\* server's tasks and results as they were when the request was not sent
\* (device identity) or was answered with a status other than 200.  (After
\* a transport failure the server may have stored the result.)  When the
\* complete request fails, no save-result request is sent.
C12_NoRollback ==
    /\ [](\A r \in Runners : ClientOnPartialSuccess(r))
    /\ [][\A r \in Runners :
            (/\ pc[r] = "wait" /\ Finishing(r) /\ ~call[r].result.isNil
             /\ pc'[r] = "done" /\ ret'[r].err # NoErr
             /\ \/ /\ stage[r] = "SaveTaskResult"
                   /\ log'[r][Len(log'[r])].resp.code # 0
                \/ /\ stage[r] = "CompleteTask"
                   /\ log'[r][Len(log'[r])].resp.code = StatusOK)
            => /\ stored' = stored
               /\ stage[r] = "SaveTaskResult" => status' = status]_vars

\* the save-result request of an UpdateTaskStatus was answered 500 after the
\* complete request was answered 200: the task is completed, without result
C12_Witness ==
    \E r \in Runners :
        /\ PartialSuccess(r)
        /\ Len(log[r]) = 2
        /\ log[r][2].resp.code = 500
        /\ ret[r].err.kind \in {"server error", "unexpected status code"}
        /\ status[ParseUUID(call[r].id)] = TaskStatusCompleted
        /\ stored[ParseUUID(call[r].id)] = NoBody

----------------------------------------------------------------------------
(* C13 *)

RecognizedTypes ==
    {TaskTypeDocker, TaskTypeCommand, TaskTypeLLM, TaskTypeFederatedLearning}

\* C13: TaskConfig.Validate(T) succeeds exactly when T is one of the four
\* task types and, for docker, the image name is not empty; every other T,
\* the empty one included, fails as an unsupported type.
C13_ConfigValidate ==
    configErr # NotCalled
    => /\ configErr = NoErr
          <=> /\ taskType \in RecognizedTypes
              /\ taskType = TaskTypeDocker => theConfig.ImageName # ""
       /\ taskType \notin RecognizedTypes
          => configErr.kind = "unsupported task type"

\* a config without image name passed validation for a type that is not
\* docker
C13_Witness ==
    /\ configErr = NoErr
    /\ taskType = TaskTypeCommand
    /\ theConfig.ImageName = ""

----------------------------------------------------------------------------
(* C14 *)

\* the five checks of Task.Validate, each on its own
TitleGiven(t) == t.Title # ""
TypeGiven(t) == t.Type # ""
ConfigDecodes(t) == Unmarshal(t.Config).ok
ConfigValid(t) == TaskConfigValidate(Unmarshal(t.Config).config, t.Type) = NoErr
EnvironmentFits(t) == t.Type = TaskTypeDocker => t.Environment = "docker"

\* C14: Task.Validate returns the error of the first check that fails, in
\* the order title, type, config decoding, config validator, docker
\* environment, and nil only when all five pass.
C14_CheckOrder ==
    taskErr # NotCalled
    => CASE ~TitleGiven(theTask) -> taskErr = Err("title is required")
         [] ~TypeGiven(theTask) -> taskErr = Err("task type is required")
         [] ~ConfigDecodes(theTask) ->
                taskErr = Err("failed to unmarshal task config")
         [] ~ConfigValid(theTask) ->
                taskErr = TaskConfigValidate(Unmarshal(theTask.Config).config,
                                             theTask.Type)
         [] ~EnvironmentFits(theTask) ->
                taskErr =
                  Err("docker environment configuration is required for docker tasks")
         [] OTHER -> taskErr = NoErr

\* a task for which the title, the config decoding, the config validator
\* and the environment check all fail is reported for its title
C14_Witness ==
    /\ taskErr = Err("title is required")
    /\ ~TitleGiven(theTask) /\ TypeGiven(theTask)
    /\ ~ConfigDecodes(theTask) /\ ~ConfigValid(theTask) /\ ~EnvironmentFits(theTask)

----------------------------------------------------------------------------
(* C15 *)

\* C15: a docker task whose environment is nil or not of kind "docker" never
\* passes Task.Validate, whatever its image name; a task of another type is
\* never rejected for its environment, and one of a recognized type with a
\* title and a decodable config passes whatever its environment is.
C15_DockerEnvironment ==
    taskErr # NotCalled
    => /\ (theTask.Type = TaskTypeDocker /\ theTask.Environment # "docker")
          => taskErr # NoErr
       /\ theTask.Type # TaskTypeDocker
          => /\ taskErr.kind #
                  "docker environment configuration is required for docker tasks"
             /\ (/\ TitleGiven(theTask) /\ ConfigDecodes(theTask)
                 /\ theTask.Type \in RecognizedTypes)
                => taskErr = NoErr

\* a docker task with a title and an image name is rejected for its
\* environment
C15_Witness ==
    /\ theTask.Type = TaskTypeDocker
    /\ TitleGiven(theTask)
    /\ ConfigDecodes(theTask) /\ Unmarshal(theTask.Config).config.ImageName # ""
    /\ theTask.Environment \in {NilEnvironment, "native"}
    /\ taskErr = Err("docker environment configuration is required for docker tasks")

----------------------------------------------------------------------------
(* C16 *)

\* the list of available tasks r's FetchTask was given
ListedTasks(r) == log[r][1].resp.tasks

\* C16: FetchTask claims only the first entry of the list.  A FetchTask call
\* sends at most two requests; a claim (start) request is its second one,
\* follows a decoded list that is not empty, and names the first entry of
\* that list; when the claim request is not sent or does not get a 200, the
\* call returns an error and no task (the "task unavailable" error on a
\* 409); and a returned task is the first entry, whose claim was answered
\* 200.
C16_FirstEntryOnly ==
    \A r \in Runners :
        call[r].op = "FetchTask"
        => /\ Len(Requests(r)) <= 2
           /\ \A i \in 1..Len(Requests(r)) :
                 EndpointOf(Requests(r)[i]) = "start"
                 => /\ i = 2
                    /\ log[r][1].resp.code = StatusOK /\ log[r][1].resp.wellformed
                    /\ Len(ListedTasks(r)) >= 1
                    /\ Requests(r)[2].url = StartURL(baseURL[r], UUIDString(ListedTasks(r)[1]))
           /\ (Done(r) /\ (Len(log[r]) < 2 \/ log[r][Len(log[r])].resp.code # StatusOK))
              => /\ ret[r].task = Nil
                 /\ ret[r].err # NoErr
                 /\ (Len(log[r]) = 2 /\ log[r][2].resp.code = StatusConflict)
                    => ret[r].err.kind = "task unavailable"
           /\ (Done(r) /\ ret[r].task # Nil)
              => /\ Len(log[r]) = 2
                 /\ log[r][2].resp.code = StatusOK
                 /\ ret[r].task = ListedTasks(r)[1]
                 /\ ret[r].err = NoErr

\* a FetchTask that was given two tasks lost the race for the first one and
\* returned the "task unavailable" error while the second was still pending
C16_Witness ==
    \E r \in Runners :
        /\ Done(r) /\ call[r].op = "FetchTask"
        /\ Len(log[r]) = 2
        /\ Len(ListedTasks(r)) = 2
        /\ log[r][2].resp.code = StatusConflict
        /\ ret[r].err.kind = "task unavailable"
        /\ ret[r].task = Nil
        /\ status[ListedTasks(r)[2]] = TaskStatusPending

----------------------------------------------------------------------------
(* C17 *)

\* C17: an invalid task is detected before any network call is made for it.
\* The task a FetchTask call sends a claim (start) request for passes
\* Task.Validate, and so does the task a FetchTask call returns.
C17_InvalidDetected ==
    \A r \in Runners :
        call[r].op = "FetchTask"
        => /\ (\E i \in 1..Len(Requests(r)) : EndpointOf(Requests(r)[i]) = "start")
              => TaskValidate(TaskOf(call[r].task)) = NoErr
           /\ (Done(r) /\ ret[r].task # Nil)
              => TaskValidate(TaskOf(ret[r].task)) = NoErr

----------------------------------------------------------------------------
(* C18 *)

\* the path of each operation under /api/v1, from the endpoint table
OpPath(st, c) ==
    CASE st = "GetAvailableTasks" -> <<"runners", "tasks", "available">>
      [] st = "StartTask" ->
            <<"runners", "tasks",
              IF c.op = "FetchTask" THEN UUIDString(c.task) ELSE c.id, "start">>
      [] st = "CompleteTask" -> <<"runners", "tasks", c.id, "complete">>
      [] st = "SaveTaskResult" -> <<"runners", "tasks", c.id, "result">>
      [] st = "CompletePrompt" -> <<"llm", "prompts", c.id, "complete">>
      [] OTHER -> <<"federated-learning", "model-updates">>

EndsInAPI(base) == Len(base) > 0 /\ base[Len(base)] = "api"

WithoutLast(base) == SubSeq(base, 1, Len(base) - 1)

\* C18 as stated, for every base URL B: a client built with B sends to
\* B/api/v1/<path>, and so does a client built with B/api.
C18_AsStated ==
    \A r \in Runners :
        pc[r] = "wait"
        => /\ req[r].url = baseURL[r] \o <<"api", "v1">> \o OpPath(stage[r], call[r])
           /\ EndsInAPI(baseURL[r])
              => req[r].url = WithoutLast(baseURL[r]) \o <<"api", "v1">>
                                \o OpPath(stage[r], call[r])

\* C18, amended: a client whose base URL B does not end in "/api" sends
\* every request to B/api/v1/<path>; a client whose base URL is B/api, for
\* any B, sends to B/api/v1/<path> too, so that exactly one "/api" suffix is
\* stripped (B/api/api gives B/api/api/v1/<path>); and no step changes the
\* base URL of a client.
C18_Normalization ==
    /\ [](\A r \in Runners :
            pc[r] = "wait"
            => req[r].url =
                 (IF EndsInAPI(baseURL[r]) THEN WithoutLast(baseURL[r]) ELSE baseURL[r])
                 \o <<"api", "v1">> \o OpPath(stage[r], call[r]))
    /\ [][baseURL' = baseURL]_vars

\* two clients, one built with B and one with B/api, have the same request
\* outstanding, to the same URL
C18_Witness ==
    \E r1, r2 \in Runners :
        /\ baseURL[r2] = baseURL[r1] \o <<"api">>
        /\ ~EndsInAPI(baseURL[r1])
        /\ pc[r1] = "wait" /\ pc[r2] = "wait"
        /\ stage[r1] = "StartTask" /\ stage[r2] = "StartTask"
        /\ req[r1].url = req[r2].url
        /\ req[r1].url = baseURL[r1] \o <<"api", "v1">> \o OpPath(stage[r1], call[r1])

----------------------------------------------------------------------------
(* C19 *)

\* the other terminal status
OtherTerminal(st) ==
    IF st = TaskStatusCompleted THEN TaskStatusFailed ELSE TaskStatusCompleted

\* the clock reading r's call took, or any reading when it took none
ClockOf(c) == IF c.at = ZeroTime THEN 2 ELSE c.at

\* the requests UpdateTaskStatus(id, st, result) of r's client sends when
\* its device identity resolves and its complete request is answered 200
FinishRequests(r, id, st, result, now) ==
    LET c == Call("UpdateTaskStatus", id, st, result, TRUE)
        first == UpdateTaskStatusSend(baseURL[r], id, st, DeviceIDOf(r), TRUE, c)
        second == UpdateTaskStatusAfterComplete(baseURL[r], RetOK, DeviceIDOf(r),
                                                TRUE, now, c)
    IN  (IF first.kind = "send" THEN <<first.req>> ELSE <<>>)
        \o (IF first.kind = "send" /\ second.kind = "send" THEN <<second.req>> ELSE <<>>)

\* C19: the terminal status is not transmitted.  The requests of an
\* UpdateTaskStatus(id, completed|failed, result) call are fixed by the
\* task id, the result and the client (base URL, device identity, clock): the
\* complete request and then the save-result request; and they are a prefix
\* of the requests the same call with the other terminal status sends.
C19_StatusNotSent ==
    \A r \in Runners :
        Finishing(r)
        => LET c == call[r]
               other == FinishRequests(r, c.id, OtherTerminal(c.status), c.result,
                                       ClockOf(c))
           IN  /\ Len(Requests(r)) <= Len(other)
               /\ \A i \in 1..Len(Requests(r)) : Requests(r)[i] = other[i]
               /\ Len(Requests(r)) >= 1
                  => Requests(r)[1] = CompleteTaskRequest(baseURL[r], c.id)
               /\ Len(Requests(r)) >= 2
                  => Requests(r)[2] =
                       SaveTaskResultRequest(baseURL[r], c.id, DeviceIDOf(r),
                                             MarshalResult(c.filled))

\* an UpdateTaskStatus with status failed and a result sent both requests
\* and returned success
C19_Witness ==
    \E r \in Runners :
        /\ Done(r) /\ Finishing(r)
        /\ call[r].status = TaskStatusFailed
        /\ ~call[r].result.isNil
        /\ Endpoints(r) = <<"complete", "result">>
        /\ ret[r].err = NoErr
        /\ status[ParseUUID(call[r].id)] = TaskStatusCompleted

----------------------------------------------------------------------------
(* C20 *)

\* C20: SaveTaskResult, and UpdateTaskStatus with a result, never abort.  A
\* call with a non-nil result never ends in a panic, and a SaveTaskResult
\* whose result has no TaskID and whose task id is no UUID is never blocked
\* in a request and ends with an error and without any request sent.
C20_NeverAborts ==
    \A r \in Runners :
        (call[r].op \in {"SaveTaskResult", "UpdateTaskStatus"} /\ ~call[r].result.isNil)
        => /\ pc[r] # "crashed"
           /\ (/\ call[r].op = "SaveTaskResult"
               /\ call[r].result.TaskID = Nil
               /\ ParseUUID(call[r].id) = ParseFailed)
              => /\ pc[r] \in {"idle", "done"}
                 /\ pc[r] = "done" => ret[r].err # NoErr /\ Len(log[r]) = 0
====
